---- MODULE Spec2Model ----
(***************************************************************************)
(* tensorflow_cpp: the Model wrapper (model.h) and the free functions on   *)
(* FrozenGraphs (graph_utils.h) and on SavedModels (saved_model_utils.h).  *)
(*                                                                         *)
(* Nine specifications share the variables:                                *)
(*   SpecGraph       calls of the free functions of graph_utils.h          *)
(*   SpecSavedModel  calls of the free functions of saved_model_utils.h    *)
(*   Spec            the life of one tensorflow_cpp::Model object          *)
(*   SpecLoad        loadModel alone, over a wider family of SavedModels   *)
(*   SpecDispatch    the first loadModel, over a wider family of paths     *)
(*   SpecQuery       the shape and dtype queries of both free-function sets*)
(*   SpecWarmup      the first loadModel with warm-up, on any input dtype  *)
(*   SpecTranslate   layer name <-> node name translation of a SavedModel  *)
(*   SpecGraphRefs   graph_utils.h on graphs with every form of input ref  *)
(***************************************************************************)
EXTENDS Integers, Sequences, FiniteSets, TLC

VARIABLES
  session_,                 \* tf::Session*: nullptr, or the number of the load that created it
  saved_model_,             \* tf::SavedModelBundleLite (its signature map)
  graph_def_,               \* tf::GraphDef (sequence of NodeDef)
  is_saved_model_,
  is_frozen_graph_,
  n_inputs_,
  n_outputs_,
  input_names_,
  output_names_,
  saved_model_node2layer_,
  saved_model_layer2node_,
  last,                     \* the last call made and what it gave back
  written,                  \* (layer, node) pairs written by the load loops of the last load
  n_loads,                  \* number of loadModel calls made on the object
  given                     \* SpecGraph, SpecSavedModel, SpecQuery: the argument the caller holds

vars == <<session_, saved_model_, graph_def_, is_saved_model_, is_frozen_graph_,
          n_inputs_, n_outputs_, input_names_, output_names_,
          saved_model_node2layer_, saved_model_layer2node_, last, written, n_loads,
          given>>

model_fields == <<session_, saved_model_, graph_def_, is_saved_model_, is_frozen_graph_,
                  n_inputs_, n_outputs_, input_names_, output_names_,
                  saved_model_node2layer_, saved_model_layer2node_>>

(***************************************************************************)
(* Bounds                                                                  *)
(***************************************************************************)
MaxNodes == 2       \* nodes of a GraphDef handed to the free functions
MaxInputs == 1      \* input references of one NodeDef
MaxEntries == 2     \* entries of the inputs map, and of the outputs map, of a signature

(***************************************************************************)
(* Strings.  std::string is a TLA+ string; operator< on std::string        *)
(* compares bytes, which Ord gives for the characters the names use.       *)
(***************************************************************************)
Ord ==
  ("0" :> 48) @@ ("1" :> 49) @@ (":" :> 58) @@ ("^" :> 94) @@ ("_" :> 95) @@
  ("a" :> 97) @@ ("b" :> 98) @@ ("c" :> 99) @@ ("d" :> 100) @@ ("i" :> 105) @@
  ("n" :> 110) @@ ("o" :> 111) @@ ("u" :> 117) @@ ("x" :> 120) @@
  ("y" :> 121) @@ ("z" :> 122)

RECURSIVE StrLess(_, _)
StrLess(s, t) ==
  IF Len(t) = 0 THEN FALSE
  ELSE IF Len(s) = 0 THEN TRUE
  ELSE IF Head(s) = Head(t) THEN StrLess(Tail(s), Tail(t))
  ELSE Ord[Head(s)] < Ord[Head(t)]

Range(f) == {f[i] : i \in DOMAIN f}

RECURSIVE SeqsUpTo(_, _)
SeqsUpTo(S, n) ==
  IF n = 0 THEN {<<>>}
  ELSE LET shorter == SeqsUpTo(S, n - 1)
       IN  shorter \cup {Append(q, x) : q \in shorter, x \in S}

(***************************************************************************)
(* graph_utils.h                                                           *)
(***************************************************************************)

\* for (node : graph_def.node()) if (node.op() == "Placeholder") push_back(node.name())
RECURSIVE getGraphInputNamesLoop(_, _, _)
getGraphInputNamesLoop(graph_def, i, input_nodes) ==
  IF i > Len(graph_def) THEN input_nodes
  ELSE getGraphInputNamesLoop(graph_def, i + 1,
         IF graph_def[i].op = "Placeholder"
         THEN Append(input_nodes, graph_def[i].name)
         ELSE input_nodes)

\* faulty variant: the names are collected in reverse declaration order
RECURSIVE getGraphInputNames_reversed(_)
getGraphInputNames_reversed(graph_def) ==
  IF graph_def = <<>> THEN <<>>
  ELSE getGraphInputNames_reversed(Tail(graph_def)) \o
       (IF Head(graph_def).op = "Placeholder" THEN <<Head(graph_def).name>> ELSE <<>>)

getGraphInputNames(graph_def) == getGraphInputNamesLoop(graph_def, 1, <<>>)

unlikely_output_ops == {"Const", "Assign", "NoOp", "Placeholder", "Assert"}

\* faulty variant: a node's reference to itself is not collected
RECURSIVE nodes_with_outputs_others(_, _, _)
nodes_with_outputs_others(graph_def, i, acc) ==
  IF i > Len(graph_def) THEN acc
  ELSE nodes_with_outputs_others(graph_def, i + 1,
         acc \o SelectSeq(graph_def[i].input, LAMBDA r : r # graph_def[i].name))

\* first loop of getGraphOutputNames: every input reference of every node
RECURSIVE nodes_with_outputs(_, _, _)
nodes_with_outputs(graph_def, i, acc) ==
  IF i > Len(graph_def) THEN acc
  ELSE nodes_with_outputs(graph_def, i + 1, acc \o graph_def[i].input)

\* std::find(begin, end, value) == end
NotFound(haystack, value) == \A k \in 1..Len(haystack) : haystack[k] # value

\* second loop of getGraphOutputNames
RECURSIVE getGraphOutputNamesLoop(_, _, _, _)
getGraphOutputNamesLoop(graph_def, with_outputs, i, output_nodes) ==
  IF i > Len(graph_def) THEN output_nodes
  ELSE getGraphOutputNamesLoop(graph_def, with_outputs, i + 1,
         IF /\ NotFound(with_outputs, graph_def[i].name)
            /\ graph_def[i].op \notin unlikely_output_ops
         THEN Append(output_nodes, graph_def[i].name)
         ELSE output_nodes)

\* faulty variant: every unreferenced node is reported, whatever its op
RECURSIVE getGraphOutputNames_anyop(_)
getGraphOutputNames_anyop(graph_def) ==
  LET with_outputs == nodes_with_outputs(graph_def, 1, <<>>)
  IN  SelectSeq([i \in 1..Len(graph_def) |-> graph_def[i].name],
                LAMBDA n : NotFound(with_outputs, n))

getGraphOutputNames(graph_def) ==
  getGraphOutputNamesLoop(graph_def, nodes_with_outputs(graph_def, 1, <<>>), 1, <<>>)

\* int64 -> int in node_shape.push_back(shape.dim(d).size()): the low 32 bits
narrow_to_int(dim) == dim.lo

ShapeToVector(shape) == [d \in 1..Len(shape) |-> narrow_to_int(shape[d])]

\* for (node : graph_def.node()) if (node.name() == node_name) {...; break;}
RECURSIVE getGraphNodeShapeLoop(_, _, _)
getGraphNodeShapeLoop(graph_def, i, node_name) ==
  IF i > Len(graph_def) THEN <<>>
  ELSE IF graph_def[i].name = node_name
       THEN IF "shape" \notin DOMAIN graph_def[i].attr
            THEN <<>>
            ELSE ShapeToVector(graph_def[i].attr["shape"])
       ELSE getGraphNodeShapeLoop(graph_def, i + 1, node_name)

getGraphNodeShape(graph_def, node_name) == getGraphNodeShapeLoop(graph_def, 1, node_name)

RECURSIVE getGraphNodeTypeLoop(_, _, _)
getGraphNodeTypeLoop(graph_def, i, node_name) ==
  IF i > Len(graph_def) THEN "DT_INVALID"
  ELSE IF graph_def[i].name = node_name
       THEN IF "dtype" \notin DOMAIN graph_def[i].attr
            THEN "DT_INVALID"
            ELSE graph_def[i].attr["dtype"]
       ELSE getGraphNodeTypeLoop(graph_def, i + 1, node_name)

getGraphNodeType(graph_def, node_name) == getGraphNodeTypeLoop(graph_def, 1, node_name)

(***************************************************************************)
(* The graphs handed to the free functions: up to MaxNodes nodes with      *)
(* unique names, any declaration order, any op of GraphOps, up to          *)
(* MaxInputs input references each (to itself, to another node, or to a    *)
(* name the graph does not declare).                                       *)
(***************************************************************************)
NamePool == <<"a", "b", "c", "d">>
GraphNames == {NamePool[i] : i \in 1..(IF MaxNodes < Len(NamePool) THEN MaxNodes ELSE Len(NamePool))}
GraphOps == unlikely_output_ops \cup {"Identity"}
InputRefs == {NamePool[1], NamePool[2]}
NoAttr == <<>>

NodeBodies == [op : GraphOps, input : SeqsUpTo(InputRefs, MaxInputs), attr : {NoAttr}]

UniqueNames(graph_def) ==
  \A i, j \in 1..Len(graph_def) : graph_def[i].name = graph_def[j].name => i = j

NodeDef(name, body) ==
  [name |-> name, op |-> body.op, input |-> body.input, attr |-> body.attr]

(***************************************************************************)
(* saved_model_utils.h.  A SavedModelBundleLite is its signature map; a    *)
(* SignatureDef holds two protobuf maps, inputs and outputs, from layer    *)
(* name to TensorInfo [name, tensor_shape, dtype].  A protobuf map is      *)
(* iterated in an order the library does not fix, and every function here  *)
(* iterates its own copy: a function whose result depends on that order    *)
(* is the set of the results it can give.                                  *)
(***************************************************************************)

\* the orders in which a range-for can visit the keys of the map m
IterationOrders(m) ==
  {o \in [1..Cardinality(DOMAIN m) -> DOMAIN m] :
     \A i, j \in DOMAIN o : o[i] = o[j] => i = j}

\* auto inputs = model_def.inputs(); auto& nodes = inputs;
\* nodes.insert(outputs.begin(), outputs.end());   (insert keeps an existing key)
MergedNodes(model_def) ==
  [key \in DOMAIN model_def.inputs \cup DOMAIN model_def.outputs |->
     IF key \in DOMAIN model_def.inputs
     THEN model_def.inputs[key]
     ELSE model_def.outputs[key]]

\* faulty variant: only the inputs of the signature are searched
getSavedModelNodeByLayerName_inputsonly(saved_model, layer_name, signature) ==
  LET nodes == saved_model.signatures[signature].inputs
  IN  {IF layer_name \in DOMAIN nodes THEN nodes[layer_name].name ELSE ""}

\* for (node : nodes) if (key == layer_name) { node_name = info.name(); break; }
RECURSIVE NodeByLayerNameLoop(_, _, _, _)
NodeByLayerNameLoop(nodes, order, k, layer_name) ==
  IF k > Len(order) THEN ""
  ELSE IF order[k] = layer_name THEN nodes[order[k]].name
  ELSE NodeByLayerNameLoop(nodes, order, k + 1, layer_name)

getSavedModelNodeByLayerName(saved_model, layer_name, signature) ==
  LET nodes == MergedNodes(saved_model.signatures[signature])
  IN  {NodeByLayerNameLoop(nodes, order, 1, layer_name) : order \in IterationOrders(nodes)}

\* for (node : nodes) if (info.name() == node_name) { layer_name = key; break; }
RECURSIVE LayerByNodeNameLoop(_, _, _, _)
LayerByNodeNameLoop(nodes, order, k, node_name) ==
  IF k > Len(order) THEN ""
  ELSE IF nodes[order[k]].name = node_name THEN order[k]
  ELSE LayerByNodeNameLoop(nodes, order, k + 1, node_name)

getSavedModelLayerByNodeName(saved_model, node_name, signature) ==
  LET nodes == MergedNodes(saved_model.signatures[signature])
  IN  {LayerByNodeNameLoop(nodes, order, 1, node_name) : order \in IterationOrders(nodes)}

\* std::sort on std::vector<std::string>
RECURSIVE SortedInsert(_, _)
SortedInsert(sorted, x) ==
  IF sorted = <<>> THEN <<x>>
  ELSE IF StrLess(x, Head(sorted)) THEN <<x>> \o sorted
  ELSE <<Head(sorted)>> \o SortedInsert(Tail(sorted), x)

RECURSIVE std_sort(_)
std_sort(names) ==
  IF names = <<>> THEN <<>>
  ELSE SortedInsert(std_sort(Tail(names)), Head(names))

\* for (node : model_def.inputs()) names.push_back(info.name());
CollectNodeNames(entries, order) == [k \in 1..Len(order) |-> entries[order[k]].name]

\* for (node_name : node_names) names.push_back(getSavedModelLayerByNodeName(...))
RECURSIVE LayerNamesOf(_, _, _)
LayerNamesOf(saved_model, node_names, signature) ==
  IF node_names = <<>> THEN {<<>>}
  ELSE {<<layer>> \o rest :
          layer \in getSavedModelLayerByNodeName(saved_model, Head(node_names), signature),
          rest \in LayerNamesOf(saved_model, Tail(node_names), signature)}

\* the body shared by getSavedModelInputNames and getSavedModelOutputNames
SavedModelNames(saved_model, entries, layer_names, signature) ==
  LET sorted == {std_sort(CollectNodeNames(entries, o)) : o \in IterationOrders(entries)}
  IN  IF layer_names
      THEN UNION {LayerNamesOf(saved_model, names, signature) : names \in sorted}
      ELSE sorted

getSavedModelInputNames(saved_model, layer_names, signature) ==
  SavedModelNames(saved_model, saved_model.signatures[signature].inputs,
                  layer_names, signature)

getSavedModelOutputNames(saved_model, layer_names, signature) ==
  SavedModelNames(saved_model, saved_model.signatures[signature].outputs,
                  layer_names, signature)

\* for (node : nodes) if (info.name() == node_name) { ...dims...; break; }
RECURSIVE NodeShapeLoop(_, _, _, _)
NodeShapeLoop(nodes, order, k, node_name) ==
  IF k > Len(order) THEN <<>>
  ELSE IF nodes[order[k]].name = node_name
       THEN ShapeToVector(nodes[order[k]].tensor_shape)
       ELSE NodeShapeLoop(nodes, order, k + 1, node_name)

getSavedModelNodeShape(saved_model, node_name, signature) ==
  LET nodes == MergedNodes(saved_model.signatures[signature])
  IN  {NodeShapeLoop(nodes, order, 1, node_name) : order \in IterationOrders(nodes)}

RECURSIVE NodeTypeLoop(_, _, _, _)
NodeTypeLoop(nodes, order, k, node_name) ==
  IF k > Len(order) THEN "DT_INVALID"
  ELSE IF nodes[order[k]].name = node_name
       THEN nodes[order[k]].dtype
       ELSE NodeTypeLoop(nodes, order, k + 1, node_name)

getSavedModelNodeType(saved_model, node_name, signature) ==
  LET nodes == MergedNodes(saved_model.signatures[signature])
  IN  {NodeTypeLoop(nodes, order, 1, node_name) : order \in IterationOrders(nodes)}

(***************************************************************************)
(* The SavedModels handed to the free functions: one signature,            *)
(* serving_default, with up to MaxEntries inputs and up to MaxEntries      *)
(* outputs; layer names and node names are drawn freely, so an input and   *)
(* an output can share a layer name and any two entries a node name.  A    *)
(* node name stands for one tensor, which fixes its shape and dtype.       *)
(***************************************************************************)
Dim64(hi, lo) == [hi |-> hi, lo |-> lo]     \* the int64 hi * 2^32 + lo, lo a signed 32-bit int
Dim(n) == Dim64(0, n)

LayerPool == {"a", "b", "c"}
NodePool == {"x", "xa", "y"}

TensorInfoOf(node_name) ==
  CASE node_name = "x"  -> [name |-> "x",  tensor_shape |-> <<Dim(-1), Dim(28), Dim(28)>>, dtype |-> "DT_FLOAT"]
    [] node_name = "xa" -> [name |-> "xa", tensor_shape |-> <<Dim(-1), Dim(10)>>, dtype |-> "DT_FLOAT"]
    [] node_name = "y"  -> [name |-> "y",  tensor_shape |-> <<Dim64(1, 28)>>, dtype |-> "DT_INT32"]
    \* a TensorInfo with neither tensor_shape nor dtype set
    [] node_name = "n"  -> [name |-> "n",  tensor_shape |-> <<>>, dtype |-> "DT_INVALID"]

EntryMaps(layers, nodes, max) ==
  UNION {[keys -> {TensorInfoOf(n) : n \in nodes}] :
           keys \in {K \in SUBSET layers : Cardinality(K) <= max}}

SavedModelOf(inputs, outputs) ==
  [signatures |-> ("serving_default" :> [inputs |-> inputs, outputs |-> outputs])]

(***************************************************************************)
(* The Model object before loadModel (model.h:57, 627-677)                 *)
(***************************************************************************)
\* tf::Session* session_ = nullptr
nullptr == 0

NoCall == [op |-> "none"]
EmptyMap == <<>>

ModelConstructed ==
  /\ session_ = nullptr
  /\ saved_model_ = [signatures |-> <<>>]
  /\ graph_def_ = <<>>
  /\ is_saved_model_ = FALSE
  /\ is_frozen_graph_ = FALSE
  /\ input_names_ = <<>>
  /\ output_names_ = <<>>
  /\ saved_model_node2layer_ = EmptyMap
  /\ saved_model_layer2node_ = EmptyMap

(***************************************************************************)
(* SpecGraph: the free functions of graph_utils.h applied to any graph     *)
(***************************************************************************)
InitGraph ==
  /\ ModelConstructed
  /\ n_inputs_ = 0
  /\ n_outputs_ = 0
  /\ last = NoCall
  /\ written = {}
  /\ n_loads = 0
  /\ \E n \in 0..MaxNodes :
       \E names \in [1..n -> GraphNames], bodies \in [1..n -> NodeBodies] :
         /\ \A i, j \in 1..n : names[i] = names[j] => i = j
         /\ given = [i \in 1..n |-> NodeDef(names[i], bodies[i])]

CallGetGraphInputNames ==
  /\ last' = [op |-> "getGraphInputNames", ret |-> getGraphInputNames(given)]
  /\ UNCHANGED <<model_fields, written, n_loads, given>>

CallGetGraphOutputNames ==
  /\ last' = [op |-> "getGraphOutputNames", ret |-> getGraphOutputNames(given)]
  /\ UNCHANGED <<model_fields, written, n_loads, given>>

NextGraph == CallGetGraphInputNames \/ CallGetGraphOutputNames

SpecGraph == InitGraph /\ [][NextGraph]_vars

(***************************************************************************)
(* Claims on graph_utils.h (checked under SpecGraph)                       *)
(***************************************************************************)
IndexOf(graph_def, name) ==
  CHOOSE i \in 1..Len(graph_def) : graph_def[i].name = name

Occurrences(names, name) == Cardinality({k \in 1..Len(names) : names[k] = name})

ReferencedByOther(graph_def, i) ==
  \E j \in 1..Len(graph_def) : j # i /\ graph_def[i].name \in Range(graph_def[j].input)

ReferencedByAny(graph_def, i) ==
  \E j \in 1..Len(graph_def) : graph_def[i].name \in Range(graph_def[j].input)

Denylisted(op) == op \in {"Const", "Assign", "NoOp", "Placeholder", "Assert"}

\* C1: getGraphInputNames(G) holds the name of every Placeholder node exactly once
\* and no other name, in the order the nodes are declared in G; with no
\* Placeholder node it is the empty sequence.
C1_InputNamesArePlaceholdersInOrder ==
  last.op = "getGraphInputNames" =>
    /\ \A i \in 1..Len(given) :
         Occurrences(last.ret, given[i].name) =
           IF given[i].op = "Placeholder" THEN 1 ELSE 0
    /\ \A k \in 1..Len(last.ret) : \E i \in 1..Len(given) : given[i].name = last.ret[k]
    /\ \A k1, k2 \in 1..Len(last.ret) :
         k1 < k2 => IndexOf(given, last.ret[k1]) < IndexOf(given, last.ret[k2])
    /\ (\A i \in 1..Len(given) : given[i].op # "Placeholder") => last.ret = <<>>

\* two Placeholder nodes declared against the alphabetical order were enumerated
C1_Witness ==
  /\ last.op = "getGraphInputNames"
  /\ Len(last.ret) = 2
  /\ StrLess(given[2].name, given[1].name)

\* C2: no name in getGraphOutputNames(G) belongs to a node that another node
\* lists as an input, nor to a node whose op is Const, Assign, NoOp,
\* Placeholder or Assert.
C2_OutputNamesExcludeConsumedAndDenylisted ==
  last.op = "getGraphOutputNames" =>
    \A k \in 1..Len(last.ret) :
      \E i \in 1..Len(given) :
        /\ given[i].name = last.ret[k]
        /\ ~ReferencedByOther(given, i)
        /\ ~Denylisted(given[i].op)

\* a graph of two nodes, one of them consumed by the other and not
\* denylisted, of which one node was reported
C2_Witness ==
  /\ last.op = "getGraphOutputNames"
  /\ Len(given) = 2
  /\ Len(last.ret) = 1
  /\ \E i \in 1..2 : ReferencedByOther(given, i) /\ ~Denylisted(given[i].op)

\* C3 as stated: a node is reported iff no OTHER node lists it as an input and
\* its op is not denylisted (so a node only listing itself is reported).
C3_AsStated ==
  last.op = "getGraphOutputNames" =>
    \A i \in 1..Len(given) :
      (given[i].name \in Range(last.ret)) <=>
        (~ReferencedByOther(given, i) /\ ~Denylisted(given[i].op))

\* C3 as amended: a node is reported iff no node of G, itself included, lists
\* its name as an input and its op is not denylisted.
C3_OutputIffUnreferencedByAnyNode ==
  last.op = "getGraphOutputNames" =>
    \A i \in 1..Len(given) :
      (given[i].name \in Range(last.ret)) <=>
        (~ReferencedByAny(given, i) /\ ~Denylisted(given[i].op))

\* a node that lists only itself, with an op outside the denylist, was left out
C3_Witness ==
  /\ last.op = "getGraphOutputNames"
  /\ \E i \in 1..Len(given) :
       /\ given[i].name \in Range(given[i].input)
       /\ ~ReferencedByOther(given, i)
       /\ ~Denylisted(given[i].op)
       /\ given[i].name \notin Range(last.ret)


(***************************************************************************)
(* SpecSavedModel: the name enumerations of saved_model_utils.h applied    *)
(* to any SavedModel                                                       *)
(***************************************************************************)
InitSavedModel ==
  /\ ModelConstructed
  /\ n_inputs_ = 0
  /\ n_outputs_ = 0
  /\ last = NoCall
  /\ written = {}
  /\ n_loads = 0
  /\ \E inputs \in EntryMaps(LayerPool, NodePool, MaxEntries),
        outputs \in EntryMaps(LayerPool, NodePool, MaxEntries) :
       given = SavedModelOf(inputs, outputs)

CallGetSavedModelInputNames ==
  /\ \E layer_names \in BOOLEAN :
       \E names \in getSavedModelInputNames(given, layer_names, "serving_default") :
         last' = [op |-> "getSavedModelInputNames", layer_names |-> layer_names,
                  ret |-> names]
  /\ UNCHANGED <<model_fields, written, n_loads, given>>

CallGetSavedModelOutputNames ==
  /\ \E layer_names \in BOOLEAN :
       \E names \in getSavedModelOutputNames(given, layer_names, "serving_default") :
         last' = [op |-> "getSavedModelOutputNames", layer_names |-> layer_names,
                  ret |-> names]
  /\ UNCHANGED <<model_fields, written, n_loads, given>>

NextSavedModel == CallGetSavedModelInputNames \/ CallGetSavedModelOutputNames

SpecSavedModel == InitSavedModel /\ [][NextSavedModel]_vars

(***************************************************************************)
(* Claims on the name enumerations (checked under SpecSavedModel)          *)
(***************************************************************************)
IsSortedAscending(names) ==
  \A k \in 1..(Len(names) - 1) : ~StrLess(names[k + 1], names[k])

\* names holds the node name of every entry of the map, once per entry
IsNodeNamesOf(names, entries) ==
  /\ Len(names) = Cardinality(DOMAIN entries)
  /\ \A n \in NodePool \cup Range(names) :
       Occurrences(names, n) = Cardinality({l \in DOMAIN entries : entries[l].name = n})

EnumeratedEntries ==
  IF last.op = "getSavedModelInputNames"
  THEN given.signatures["serving_default"].inputs
  ELSE given.signatures["serving_default"].outputs

\* C9: getSavedModelInputNames/getSavedModelOutputNames with layer_names=false
\* return the declared node names sorted ascending; with layer_names=true the
\* k-th name returned is the layer name of a declared entry (of the inputs,
\* resp. of the outputs) whose node name is k-th in that sorted order.
C9_NamesOrderedByNodeName ==
  last.op \in {"getSavedModelInputNames", "getSavedModelOutputNames"} =>
    IF last.layer_names
    THEN /\ \A k \in 1..Len(last.ret) : last.ret[k] \in DOMAIN EnumeratedEntries
         /\ LET node_names == [k \in 1..Len(last.ret) |-> EnumeratedEntries[last.ret[k]].name]
            IN  IsSortedAscending(node_names) /\ IsNodeNamesOf(node_names, EnumeratedEntries)
    ELSE IsSortedAscending(last.ret) /\ IsNodeNamesOf(last.ret, EnumeratedEntries)

(***************************************************************************)
(* model.h: class Model.  A method is an operator from the object (the     *)
(* record of its fields) and its arguments to the set of results           *)
(* [m, status, ...] it can give: m is the object afterwards, status is     *)
(* "ok" (val is the value returned), "throw" (type and what describe the   *)
(* exception), "abort" (the process was ended) or "undefined" (the call    *)
(* has undefined behaviour); runs lists the calls of session_->Run it made.*)
(***************************************************************************)
Self ==
  [session_ |-> session_, saved_model_ |-> saved_model_, graph_def_ |-> graph_def_,
   is_saved_model_ |-> is_saved_model_, is_frozen_graph_ |-> is_frozen_graph_,
   n_inputs_ |-> n_inputs_, n_outputs_ |-> n_outputs_,
   input_names_ |-> input_names_, output_names_ |-> output_names_,
   saved_model_node2layer_ |-> saved_model_node2layer_,
   saved_model_layer2node_ |-> saved_model_layer2node_]

Becomes(m) ==
  /\ session_' = m.session_
  /\ saved_model_' = m.saved_model_
  /\ graph_def_' = m.graph_def_
  /\ is_saved_model_' = m.is_saved_model_
  /\ is_frozen_graph_' = m.is_frozen_graph_
  /\ n_inputs_' = m.n_inputs_
  /\ n_outputs_' = m.n_outputs_
  /\ input_names_' = m.input_names_
  /\ output_names_' = m.output_names_
  /\ saved_model_node2layer_' = m.saved_model_node2layer_
  /\ saved_model_layer2node_' = m.saved_model_layer2node_

\* tf::Status::ToString() of a success and of a non-success status
StatusOK == "OK"
StatusError == "INTERNAL: message of the runtime"
StatusOf(ok) == IF ok THEN StatusOK ELSE StatusError

Returned(m, val) == [m |-> m, status |-> "ok", val |-> val, runs |-> <<>>]
Threw(m, type, what) == [m |-> m, status |-> "throw", type |-> type, what |-> what, runs |-> <<>>]
Undefined(m, why) == [m |-> m, status |-> "undefined", why |-> why, runs |-> <<>>]

\* std::unordered_map::operator[]: a missing key is inserted with an empty string
MapIndex(map, key) == IF key \in DOMAIN map THEN map ELSE map @@ (key :> "")

MapGet(map, key) == IF key \in DOMAIN map THEN map[key] ELSE ""

\* map[key] = val
MapPut(map, key, val) ==
  [k \in DOMAIN map \cup {key} |-> IF k = key THEN val ELSE map[k]]

\* saved_model.GetSignatures().at(signature) throws std::out_of_range
SignatureMissing(saved_model, signature) == signature \notin DOMAIN saved_model.signatures

\* isLoaded(): bool(session_)
Model_isLoaded(m) == Returned(m, m.session_ # nullptr)

Model_getNodeShape(m, name) ==
  IF m.is_saved_model_
  THEN LET layer2node == MapIndex(m.saved_model_layer2node_, name)
           m1 == [m EXCEPT !.saved_model_layer2node_ = layer2node]
       IN  IF SignatureMissing(m.saved_model_, "serving_default")
           THEN {Threw(m1, "std::out_of_range", <<"at">>)}
           ELSE {Returned(m1, shape) :
                   shape \in getSavedModelNodeShape(m.saved_model_, MapGet(layer2node, name),
                                                    "serving_default")}
  ELSE IF m.is_frozen_graph_
  THEN {Returned(m, getGraphNodeShape(m.graph_def_, name))}
  ELSE {Returned(m, <<>>)}

Model_getNodeType(m, name) ==
  IF m.is_saved_model_
  THEN LET layer2node == MapIndex(m.saved_model_layer2node_, name)
           m1 == [m EXCEPT !.saved_model_layer2node_ = layer2node]
       IN  IF SignatureMissing(m.saved_model_, "serving_default")
           THEN {Threw(m1, "std::out_of_range", <<"at">>)}
           ELSE {Returned(m1, type) :
                   type \in getSavedModelNodeType(m.saved_model_, MapGet(layer2node, name),
                                                  "serving_default")}
  ELSE IF m.is_frozen_graph_
  THEN {Returned(m, getGraphNodeType(m.graph_def_, name))}
  ELSE {Returned(m, "DT_INVALID")}

\* faulty variant: with a count other than 1 the first name, if any, is queried
Model_getInputShape_nocheck(m) ==
  IF Len(m.input_names_) = 0
  THEN {Returned(m, <<>>)}
  ELSE Model_getNodeShape(m, m.input_names_[1])

Model_getInputShape(m) ==
  IF m.n_inputs_ # 1
  THEN {Threw(m, "std::runtime_error",
              <<"getInputShape", "only available for single-input models", m.n_inputs_>>)}
  ELSE IF Len(m.input_names_) = 0
  THEN {Undefined(m, "input_names_[0] on an empty vector")}
  ELSE Model_getNodeShape(m, m.input_names_[1])

Model_getOutputShape(m) ==
  IF m.n_outputs_ # 1
  THEN {Threw(m, "std::runtime_error",
              <<"getOutputShape", "only available for single-output models", m.n_outputs_>>)}
  ELSE IF Len(m.output_names_) = 0
  THEN {Undefined(m, "output_names_[0] on an empty vector")}
  ELSE Model_getNodeShape(m, m.output_names_[1])

Model_getInputType(m) ==
  IF m.n_inputs_ # 1
  THEN {Threw(m, "std::runtime_error",
              <<"getInputType", "only available for single-input models", m.n_inputs_>>)}
  ELSE IF Len(m.input_names_) = 0
  THEN {Undefined(m, "input_names_[0] on an empty vector")}
  ELSE Model_getNodeType(m, m.input_names_[1])

Model_getOutputType(m) ==
  IF m.n_outputs_ # 1
  THEN {Threw(m, "std::runtime_error",
              <<"getOutputType", "only available for single-output models", m.n_outputs_>>)}
  ELSE IF Len(m.output_names_) = 0
  THEN {Undefined(m, "output_names_[0] on an empty vector")}
  ELSE Model_getNodeType(m, m.output_names_[1])

\* for (name : names) shapes.push_back(getNodeShape(name));
RECURSIVE NodeShapes(_, _, _)
NodeShapes(m, names, shapes) ==
  IF names = <<>> THEN {Returned(m, shapes)}
  ELSE UNION {IF r.status = "ok"
              THEN NodeShapes(r.m, Tail(names), Append(shapes, r.val))
              ELSE {r} : r \in Model_getNodeShape(m, Head(names))}

RECURSIVE NodeTypes(_, _, _)
NodeTypes(m, names, types) ==
  IF names = <<>> THEN {Returned(m, types)}
  ELSE UNION {IF r.status = "ok"
              THEN NodeTypes(r.m, Tail(names), Append(types, r.val))
              ELSE {r} : r \in Model_getNodeType(m, Head(names))}

Model_getInputShapes(m) == NodeShapes(m, m.input_names_, <<>>)
Model_getOutputShapes(m) == NodeShapes(m, m.output_names_, <<>>)
Model_getInputTypes(m) == NodeTypes(m, m.input_names_, <<>>)
Model_getOutputTypes(m) == NodeTypes(m, m.output_names_, <<>>)

\* the tensor the runtime returns for the k-th requested output node
RunOutput(output_node_names, k) == [output_of |-> output_node_names[k], position |-> k]
DefaultTensor == [output_of |-> "", position |-> 0]

\* for (k...) outputs[output_names[k]] = output_tensors[k];
RECURSIVE BuildOutputs(_, _, _, _)
BuildOutputs(output_names, output_node_names, k, outputs) ==
  IF k > Len(output_names) THEN outputs
  ELSE BuildOutputs(output_names, output_node_names, k + 1,
                    MapPut(outputs, output_names[k], RunOutput(output_node_names, k)))

\* faulty variant: a non-success status gives an empty output map
SessionRun_swallow(m, input_nodes, output_node_names, output_names, run_ok) ==
  IF m.session_ = nullptr
  THEN Undefined(m, "session_->Run on a null pointer")
  ELSE [Returned(m, IF run_ok
                    THEN BuildOutputs(output_names, output_node_names, 1, EmptyMap)
                    ELSE EmptyMap)
          EXCEPT !.runs = <<[inputs |-> input_nodes, outputs |-> output_node_names,
                             status |-> StatusOf(run_ok)]>>]

\* status = session_->Run(input_nodes, output_node_names, {}, &output_tensors) and after
SessionRun(m, input_nodes, output_node_names, output_names, run_ok) ==
  IF m.session_ = nullptr
  THEN Undefined(m, "session_->Run on a null pointer")
  ELSE LET call == [inputs |-> input_nodes, outputs |-> output_node_names,
                     status |-> StatusOf(run_ok)]
       IN  IF call.status = StatusOK
           THEN [Returned(m, BuildOutputs(output_names, output_node_names, 1, EmptyMap))
                   EXCEPT !.runs = <<call>>]
           ELSE [Threw(m, "std::runtime_error", <<"Failed to run model: ", call.status>>)
                   EXCEPT !.runs = <<call>>]

\* saved_model_layer2node_[name] for every input, then for every output name
RECURSIVE IndexAll(_, _)
IndexAll(map, names) ==
  IF names = <<>> THEN map ELSE IndexAll(MapIndex(map, Head(names)), Tail(names))

\* tf::DataTypeString(dtype)
DataTypeString(dtype) ==
  CASE dtype = "DT_INVALID" -> "INVALID"
    [] dtype = "DT_FLOAT" -> "float"
    [] dtype = "DT_DOUBLE" -> "double"
    [] dtype = "DT_INT32" -> "int32"
    [] dtype = "DT_UINT32" -> "uint32"
    [] dtype = "DT_UINT8" -> "uint8"
    [] dtype = "DT_UINT16" -> "uint16"
    [] dtype = "DT_INT16" -> "int16"
    [] dtype = "DT_INT8" -> "int8"
    [] dtype = "DT_STRING" -> "string"
    [] dtype = "DT_COMPLEX64" -> "complex64"
    [] dtype = "DT_COMPLEX128" -> "complex128"
    [] dtype = "DT_INT64" -> "int64"
    [] dtype = "DT_UINT64" -> "uint64"
    [] dtype = "DT_BOOL" -> "bool"
    [] dtype = "DT_QINT8" -> "qint8"
    [] dtype = "DT_QUINT8" -> "quint8"
    [] dtype = "DT_QUINT16" -> "quint16"
    [] dtype = "DT_QINT16" -> "qint16"
    [] dtype = "DT_QINT32" -> "qint32"
    [] dtype = "DT_BFLOAT16" -> "bfloat16"
    [] dtype = "DT_HALF" -> "half"

\* A std::string built through a std::stringstream is the sequence of its
\* lines, a line the tuple of the values streamed into it; the empty string
\* is the empty sequence.
EmptyString == <<>>

\* for (name : names) { ss << name; ss << shape; ss << DataTypeString(dtype); }
RECURSIVE GraphNodeLines(_, _)
GraphNodeLines(graph_def, names) ==
  IF names = <<>> THEN <<>>
  ELSE <<<<"  ", Head(names)>>,
         <<"    Shape: [ ", getGraphNodeShape(graph_def, Head(names)), "]">>,
         <<"    DataType: ", DataTypeString(getGraphNodeType(graph_def, Head(names)))>>>>
       \o GraphNodeLines(graph_def, Tail(names))

getGraphInfoString(graph_def) ==
  LET inputs == getGraphInputNames(graph_def)
      outputs == getGraphOutputNames(graph_def)
  IN  <<<<"FrozenGraph Info:">>, <<"Inputs: ", Len(inputs)>>>>
      \o GraphNodeLines(graph_def, inputs)
      \o <<<<"Outputs: ", Len(outputs)>>>>
      \o GraphNodeLines(graph_def, outputs)

\* for (node : def.inputs()) {...}: the int64 dimensions are streamed as they are
RECURSIVE EntryLines(_, _, _)
EntryLines(entries, order, k) ==
  IF k > Len(order) THEN <<>>
  ELSE <<<<"      ", order[k], ": ", entries[order[k]].name>>,
         <<"        Shape: [ ", entries[order[k]].tensor_shape, "]">>,
         <<"        DataType: ", DataTypeString(entries[order[k]].dtype)>>>>
       \o EntryLines(entries, order, k + 1)

SignatureLines(name, def) ==
  {<<<<"  ", name>>, <<"    Inputs: ", Cardinality(DOMAIN def.inputs)>>>>
     \o EntryLines(def.inputs, input_order, 1)
     \o <<<<"    Outputs: ", Cardinality(DOMAIN def.outputs)>>>>
     \o EntryLines(def.outputs, output_order, 1) :
   input_order \in IterationOrders(def.inputs),
   output_order \in IterationOrders(def.outputs)}

\* for (sig : signatures) {...}
RECURSIVE SignaturesLines(_, _, _)
SignaturesLines(signatures, order, k) ==
  IF k > Len(order) THEN {<<>>}
  ELSE {lines \o rest :
          lines \in SignatureLines(order[k], signatures[order[k]]),
          rest \in SignaturesLines(signatures, order, k + 1)}

getSavedModelInfoString(saved_model) ==
  UNION {{<<<<"SavedModel Info:">>, <<"Signatures:">>>> \o lines :
            lines \in SignaturesLines(saved_model.signatures, order, 1)} :
         order \in IterationOrders(saved_model.signatures)}

\* getInfoString()
Model_getInfoString(m) ==
  IF m.is_saved_model_
  THEN {Returned(m, info) : info \in getSavedModelInfoString(m.saved_model_)}
  ELSE IF m.is_frozen_graph_
  THEN {Returned(m, getGraphInfoString(m.graph_def_))}
  ELSE {Returned(m, EmptyString)}

\* faulty variant: an object holding neither format goes on to session_->Run
Model_call_nocheck(m, inputs, output_names, run_ok) ==
  IF m.is_saved_model_
  THEN LET layer2node ==
             IndexAll(m.saved_model_layer2node_,
                      [k \in 1..Len(inputs) |-> inputs[k][1]] \o output_names)
           m1 == [m EXCEPT !.saved_model_layer2node_ = layer2node]
       IN  SessionRun(m1,
                      [k \in 1..Len(inputs) |-> <<MapGet(layer2node, inputs[k][1]), inputs[k][2]>>],
                      [k \in 1..Len(output_names) |-> MapGet(layer2node, output_names[k])],
                      output_names, run_ok)
  ELSE SessionRun(m, inputs, output_names, output_names, run_ok)

\* operator()(inputs, output_names)
Model_call(m, inputs, output_names, run_ok) ==
  IF m.is_saved_model_
  THEN LET layer2node ==
             IndexAll(m.saved_model_layer2node_,
                      [k \in 1..Len(inputs) |-> inputs[k][1]] \o output_names)
           m1 == [m EXCEPT !.saved_model_layer2node_ = layer2node]
       IN  SessionRun(m1,
                      [k \in 1..Len(inputs) |-> <<MapGet(layer2node, inputs[k][1]), inputs[k][2]>>],
                      [k \in 1..Len(output_names) |-> MapGet(layer2node, output_names[k])],
                      output_names, run_ok)
  ELSE IF m.is_frozen_graph_
  THEN SessionRun(m, inputs, output_names, output_names, run_ok)
  ELSE Returned(m, EmptyMap)

\* faulty variant: only the number of inputs is tested
Model_call_tensor_inputsonly(m, input_tensor, run_ok) ==
  IF m.n_inputs_ # 1
  THEN Threw(m, "std::runtime_error",
             <<"only available for single-input/single-output models",
               m.n_inputs_, m.n_outputs_>>)
  ELSE IF Len(m.input_names_) = 0 \/ Len(m.output_names_) = 0
  THEN Undefined(m, "input_names_[0] or output_names_[0] on an empty vector")
  ELSE Model_call(m, <<<<m.input_names_[1], input_tensor>>>>, <<m.output_names_[1]>>, run_ok)

\* operator()(input_tensor)
Model_call_tensor(m, input_tensor, run_ok) ==
  IF m.n_inputs_ # 1 \/ m.n_outputs_ # 1
  THEN Threw(m, "std::runtime_error",
             <<"only available for single-input/single-output models",
               m.n_inputs_, m.n_outputs_>>)
  ELSE IF Len(m.input_names_) = 0 \/ Len(m.output_names_) = 0
  THEN Undefined(m, "input_names_[0] or output_names_[0] on an empty vector")
  ELSE LET r == Model_call(m, <<<<m.input_names_[1], input_tensor>>>>,
                           <<m.output_names_[1]>>, run_ok)
       IN  IF r.status = "ok"
           THEN [r EXCEPT !.val = IF m.output_names_[1] \in DOMAIN r.val
                                  THEN r.val[m.output_names_[1]]
                                  ELSE DefaultTensor]
           ELSE r

\* faulty variant: the number of tensors is not tested, the names and the
\* tensors are paired as far as both go
Model_call_tensors_nocheck(m, input_tensors, run_ok) ==
  Model_call(m,
             [k \in 1..(IF Len(input_tensors) < Len(m.input_names_)
                        THEN Len(input_tensors) ELSE Len(m.input_names_)) |->
                <<m.input_names_[k], input_tensors[k]>>],
             m.output_names_, run_ok)

\* faulty variant: the output tensors are returned in the reverse order
Model_call_tensors_reversed(m, input_tensors, run_ok) ==
  IF Len(input_tensors) # m.n_inputs_
  THEN Threw(m, "std::runtime_error",
             <<"Model has inputs, but input tensors were given",
               m.n_inputs_, Len(input_tensors)>>)
  ELSE IF m.n_inputs_ > Len(m.input_names_)
  THEN Undefined(m, "input_names_[k] past the end of the vector")
  ELSE LET r == Model_call(m,
                           [k \in 1..m.n_inputs_ |-> <<m.input_names_[k], input_tensors[k]>>],
                           m.output_names_, run_ok)
       IN  IF r.status = "ok"
           THEN [r EXCEPT !.val = [k \in 1..Len(m.output_names_) |->
                                     r.val[m.output_names_[Len(m.output_names_) + 1 - k]]]]
           ELSE r

\* operator()(input_tensors)
Model_call_tensors(m, input_tensors, run_ok) ==
  IF Len(input_tensors) # m.n_inputs_
  THEN Threw(m, "std::runtime_error",
             <<"Model has inputs, but input tensors were given",
               m.n_inputs_, Len(input_tensors)>>)
  ELSE IF m.n_inputs_ > Len(m.input_names_)
  THEN Undefined(m, "input_names_[k] past the end of the vector")
  ELSE LET r == Model_call(m,
                           [k \in 1..m.n_inputs_ |-> <<m.input_names_[k], input_tensors[k]>>],
                           m.output_names_, run_ok)
       IN  IF r.status = "ok"
           THEN [r EXCEPT !.val = [k \in 1..Len(m.output_names_) |->
                                     IF m.output_names_[k] \in DOMAIN r.val
                                     THEN r.val[m.output_names_[k]]
                                     ELSE DefaultTensor]]
           ELSE r

\* std::replace(dummy_shape.begin(), dummy_shape.end(), -1l, 1l)
DummyShape(input_shape) ==
  [d \in 1..Len(input_shape) |-> IF input_shape[d] = -1 THEN 1 ELSE input_shape[d]]

\* the cases of switch (input_types[k]) in the order of the source: the case
\* label, the element type T of its dummy.flat<T>().setZero(), and whether a
\* break follows the statement
SwitchCases ==
  <<<<"DT_FLOAT", "float", TRUE>>,
    <<"DT_DOUBLE", "double", FALSE>>,
    <<"DT_INT32", "tf::int32", TRUE>>,
    <<"DT_UINT32", "tf::uint32", TRUE>>,
    <<"DT_UINT8", "tf::uint8", TRUE>>,
    <<"DT_UINT16", "tf::uint16", TRUE>>,
    <<"DT_INT16", "tf::int16", TRUE>>,
    <<"DT_INT8", "tf::int8", TRUE>>,
    <<"DT_STRING", "tf::tstring", TRUE>>,
    <<"DT_COMPLEX64", "tf::complex64", TRUE>>,
    <<"DT_COMPLEX128", "tf::complex128", TRUE>>,
    <<"DT_INT64", "tf::int64", TRUE>>,
    <<"DT_UINT64", "tf::uint64", TRUE>>,
    <<"DT_BOOL", "bool", TRUE>>,
    <<"DT_QINT8", "tf::qint8", TRUE>>,
    <<"DT_QUINT8", "tf::quint8", TRUE>>,
    <<"DT_QUINT16", "tf::quint16", TRUE>>,
    <<"DT_QINT16", "tf::qint16", TRUE>>,
    <<"DT_QINT32", "tf::qint32", TRUE>>,
    <<"DT_BFLOAT16", "tf::bfloat16", TRUE>>,
    <<"DT_HALF", "Eigen::half", TRUE>>>>

\* the statements run from case i on, up to the first break
RECURSIVE RunFromCase(_)
RunFromCase(i) ==
  IF i > Len(SwitchCases) THEN <<>>
  ELSE IF SwitchCases[i][3] THEN <<SwitchCases[i][2]>>
  ELSE <<SwitchCases[i][2]>> \o RunFromCase(i + 1)

\* switch (input_types[k]) {...}: the element types of the zero-fills run
ZeroFills(type) ==
  LET hit == {i \in 1..Len(SwitchCases) : SwitchCases[i][1] = type}
  IN  IF hit = {} THEN <<>> ELSE RunFromCase(CHOOSE i \in hit : TRUE)

\* the datatype a tensor must have for flat<T>() to pass its type check
DataTypeToEnum(element_type) ==
  SwitchCases[CHOOSE i \in 1..Len(SwitchCases) : SwitchCases[i][2] = element_type][1]

\* tf::Tensor dummy(input_types[k], dummy_tensor_shape) after the switch
DummyTensor(type, input_shape) ==
  [dtype |-> type, shape |-> DummyShape(input_shape), zero_fills |-> ZeroFills(type)]

\* some dummy.flat<T>() is called on a tensor that does not hold elements of
\* type T: the type check of flat<T>() fails and ends the process
FlatTypeCheckFails(dummy) ==
  \E f \in 1..Len(dummy.zero_fills) : DataTypeToEnum(dummy.zero_fills[f]) # dummy.dtype

Aborted(m, why) == [m |-> m, status |-> "abort", why |-> why, runs |-> <<>>]

\* the loop over the inputs of dummyCall and the run after it; dummies: the
\* dummy tensors built, the last one being the one the process ended on
RunDummies(m, input_shapes, input_types, run_ok) ==
  LET dummies == [k \in 1..m.n_inputs_ |-> DummyTensor(input_types[k], input_shapes[k])]
      failing == {k \in 1..m.n_inputs_ : FlatTypeCheckFails(dummies[k])}
  IN  IF failing # {}
      THEN LET first == CHOOSE k \in failing : \A j \in failing : k <= j
           IN  Aborted(m, "flat<T>() on a tensor of another datatype")
                 @@ [dummies |-> SubSeq(dummies, 1, first)]
      ELSE Model_call_tensors(m, dummies, run_ok) @@ [dummies |-> dummies]

\* dummyCall()
Model_dummyCall(m, run_ok) ==
  UNION {IF shapes.status # "ok" THEN {shapes}
         ELSE {IF types.status # "ok" THEN types
               ELSE RunDummies(types.m, shapes.val, types.val, run_ok) :
               types \in Model_getInputTypes(shapes.m)} :
         shapes \in Model_getInputShapes(m)}

\* model_path.substr(model_path.size() - 3): size() - 3 wraps around in size_t
\* when size() < 3, the position is then past the end and substr throws
SubstrThrows(model_path) == Len(model_path) < 3

Suffix3(model_path) == SubSeq(model_path, Len(model_path) - 2, Len(model_path))

IsFrozenGraphPath(model_path) == Suffix3(model_path) = ".pb"

\* faulty variant: only the layer -> node direction is written
RECURSIVE WriteNameMaps_oneway(_, _, _, _)
WriteNameMaps_oneway(m, nodes, names, k) ==
  IF k > Len(names) THEN m
  ELSE WriteNameMaps_oneway(
         [m EXCEPT !.saved_model_layer2node_ = MapPut(@, names[k], nodes[k])],
         nodes, names, k + 1)

\* for (k...) { node2layer[nodes[k]] = names[k]; layer2node[names[k]] = nodes[k]; }
RECURSIVE WriteNameMaps(_, _, _, _)
WriteNameMaps(m, nodes, names, k) ==
  IF k > Len(names) THEN m
  ELSE WriteNameMaps(
         [m EXCEPT !.saved_model_node2layer_ = MapPut(@, nodes[k], names[k]),
                   !.saved_model_layer2node_ = MapPut(@, names[k], nodes[k])],
         nodes, names, k + 1)

PairsOf(names, nodes) == {<<names[k], nodes[k]>> : k \in 1..Len(names)}

\* n_inputs_ = ...; n_outputs_ = ...; if (warmup) dummyCall();
FinishLoad(m, warmup, loader, pairs, statuses) ==
  LET m1 == [m EXCEPT !.n_inputs_ = Len(m.input_names_),
                      !.n_outputs_ = Len(m.output_names_)]
      about == [loader |-> loader, written |-> pairs, wrote |-> (loader = "loadSavedModel"),
                statuses |-> statuses, dummies |-> <<>>]
  IN  IF warmup
      THEN UNION {{IF r.status = "ok"
                   THEN [Returned(r.m, "void") EXCEPT !.runs = r.runs]
                          @@ [dummies |-> r.dummies] @@ about
                   ELSE r @@ about : r \in Model_dummyCall(m1, run_ok)} :
                  run_ok \in BOOLEAN}
      ELSE {Returned(m1, "void") @@ about}

\* the status a call of the runtime gave during loadModel
StepStatus(call, ok) == [call |-> call, status |-> StatusOf(ok)]

\* faulty variant: the status of session->Create is not looked at
LoadFrozenGraphBranch_swallow(m, warmup, graphs, new_session) ==
  UNION {FinishLoad([m EXCEPT !.graph_def_ = graph_def,
                              !.session_ = new_session,
                              !.input_names_ = getGraphInputNames(graph_def),
                              !.output_names_ = getGraphOutputNames(graph_def)],
                    warmup, "loadFrozenGraph", {},
                    <<StepStatus("ReadBinaryProto", TRUE), StepStatus("NewSession", TRUE),
                      StepStatus("Session::Create", create_ok)>>) :
         graph_def \in graphs, create_ok \in BOOLEAN}

\* the FrozenGraph branch of loadModel; graphs: what the file may hold
LoadFrozenGraphBranch(m, warmup, graphs, new_session) ==
  LET about(statuses) ==
        [loader |-> "loadFrozenGraph", written |-> {}, wrote |-> FALSE,
         statuses |-> statuses, dummies |-> <<>>]
      read(ok) == StepStatus("ReadBinaryProto", ok)
      new(ok) == StepStatus("NewSession", ok)
      create(ok) == StepStatus("Session::Create", ok)
  IN  {Threw(m, "std::runtime_error", <<"Failed to load frozen graph: ", StatusError>>)
         @@ about(<<read(FALSE)>>)}
      \cup UNION {
        LET m1 == [m EXCEPT !.graph_def_ = graph_def]
            m2 == [m1 EXCEPT !.session_ = new_session]
            m3 == [m2 EXCEPT !.input_names_ = getGraphInputNames(graph_def),
                             !.output_names_ = getGraphOutputNames(graph_def)]
        IN  {Threw(m1, "std::runtime_error", <<"Failed to create new session: ", StatusError>>)
               @@ about(<<read(TRUE), new(FALSE)>>),
             Threw(m2, "std::runtime_error",
                   <<"Failed to load graph into session: ", StatusError>>)
               @@ about(<<read(TRUE), new(TRUE), create(FALSE)>>)}
            \cup FinishLoad(m3, warmup, "loadFrozenGraph", {},
                            <<read(TRUE), new(TRUE), create(TRUE)>>) :
        graph_def \in graphs}

\* the SavedModel branch of loadModel; saved_models: what the directory may hold
LoadSavedModelBranch(m, warmup, saved_models, new_session) ==
  LET about(statuses) ==
        [loader |-> "loadSavedModel", written |-> {}, wrote |-> FALSE,
         statuses |-> statuses, dummies |-> <<>>]
      load(ok) == StepStatus("LoadSavedModel", ok)
  IN  {Threw(m, "std::runtime_error", <<"Failed to load SavedModel: ", StatusError>>)
         @@ about(<<load(FALSE)>>)}
      \cup UNION {
        LET m1 == [m EXCEPT !.saved_model_ = saved_model, !.session_ = new_session]
        IN  IF SignatureMissing(saved_model, "serving_default")
            THEN {Threw(m1, "std::out_of_range", <<"at">>) @@ about(<<load(TRUE)>>)}
            ELSE UNION {
                   LET m2 == [m1 EXCEPT !.input_names_ = input_names,
                                        !.output_names_ = output_names]
                       m3 == WriteNameMaps(m2, input_nodes, input_names, 1)
                       m4 == WriteNameMaps(m3, output_nodes, output_names, 1)
                   IN  FinishLoad(m4, warmup, "loadSavedModel",
                                  PairsOf(input_names, input_nodes)
                                    \cup PairsOf(output_names, output_nodes),
                                  <<load(TRUE)>>) :
                   input_names \in getSavedModelInputNames(saved_model, TRUE, "serving_default"),
                   output_names \in getSavedModelOutputNames(saved_model, TRUE, "serving_default"),
                   input_nodes \in getSavedModelInputNames(saved_model, FALSE, "serving_default"),
                   output_nodes \in getSavedModelOutputNames(saved_model, FALSE, "serving_default")} :
        saved_model \in saved_models}

\* loadModel(model_path, warmup, ...)
Model_loadModel(m, model_path, warmup, graphs, saved_models, new_session) ==
  IF SubstrThrows(model_path)
  THEN {Threw(m, "std::out_of_range", <<"basic_string::substr">>)
          @@ [loader |-> "none", written |-> {}, wrote |-> FALSE, statuses |-> <<>>,
              dummies |-> <<>>]}
  ELSE LET m1 == [m EXCEPT !.is_frozen_graph_ = IsFrozenGraphPath(model_path),
                           !.is_saved_model_ = ~IsFrozenGraphPath(model_path)]
       IN  IF m1.is_frozen_graph_
           THEN LoadFrozenGraphBranch(m1, warmup, graphs, new_session)
           ELSE LoadSavedModelBranch(m1, warmup, saved_models, new_session)

(***************************************************************************)
(* Spec: one Model object; loadModel (at most MaxLoads times), the         *)
(* queries, getInfoString and the three operator() overloads in any order. *)
(***************************************************************************)
MaxLoads == 2

\* n_inputs_ and n_outputs_ have no initializer (model.h:652, 657)
IndeterminateInts == {-1, 1}

Init ==
  /\ ModelConstructed
  /\ n_inputs_ \in IndeterminateInts
  /\ n_outputs_ \in IndeterminateInts
  /\ last = NoCall
  /\ written = {}
  /\ n_loads = 0
  /\ given = <<>>

\* what the runtime may find on disk
PlaceholderFloat ==
  [op |-> "Placeholder", input |-> <<>>,
   attr |-> ("shape" :> <<Dim(-1), Dim(28), Dim(28)>>) @@ ("dtype" :> "DT_FLOAT")]
PlaceholderWide ==
  [op |-> "Placeholder", input |-> <<>>, attr |-> ("shape" :> <<Dim64(1, 28)>>)]
IdentityOfA == [op |-> "Identity", input |-> <<"a">>, attr |-> NoAttr]

DiskNodeBodies == {PlaceholderFloat, PlaceholderWide, IdentityOfA}
DiskGraphs ==
  {<<>>}
  \cup {<<NodeDef("a", b1)>> : b1 \in DiskNodeBodies}
  \cup {<<NodeDef("a", b1), NodeDef("b", b2)>> :
          b1 \in DiskNodeBodies, b2 \in {PlaceholderWide, IdentityOfA}}

\* SavedModels of the full life: the declared entries are unique, share a
\* layer name between an input and an output, share a node, or are absent
DiskInputs ==
  {EmptyMap,
   "a" :> TensorInfoOf("x"),
   "b" :> TensorInfoOf("y"),
   "b" :> TensorInfoOf("x"),
   ("a" :> TensorInfoOf("x")) @@ ("b" :> TensorInfoOf("xa"))}

DiskOutputs ==
  {EmptyMap,
   "a" :> TensorInfoOf("xa"),
   ("a" :> TensorInfoOf("xa")) @@ ("b" :> TensorInfoOf("x"))}

NoSignature == [signatures |-> <<>>]

DiskSavedModels ==
  {NoSignature}
  \cup {SavedModelOf(inputs, outputs) : inputs \in DiskInputs, outputs \in DiskOutputs}

ModelPaths == {"sm", "saved_model", "graph.pb"}
QueryNames == {"a", "q"}

Outcome(r) == [k \in (DOMAIN r) \ {"m", "written"} |-> r[k]]

Do(call, r) ==
  /\ Becomes(r.m)
  /\ last' = call @@ Outcome(r)
  /\ UNCHANGED <<written, n_loads, given>>

\* written: the (layer, node) pairs the two loops of the latest loadModel
\* that reached them have written
LoadModel(paths, graphs, saved_models, max_loads) ==
  /\ n_loads < max_loads
  /\ \E model_path \in paths, warmup \in BOOLEAN :
       \E r \in Model_loadModel(Self, model_path, warmup, graphs, saved_models, n_loads + 1) :
         /\ Becomes(r.m)
         /\ last' = [op |-> "loadModel", model_path |-> model_path, warmup |-> warmup]
                      @@ Outcome(r)
         /\ written' = IF r.wrote THEN r.written ELSE written
         /\ n_loads' = n_loads + 1
         /\ UNCHANGED given

IsLoaded == \E r \in {Model_isLoaded(Self)} : Do([op |-> "isLoaded"], r)

GetNodeShape ==
  \E name \in QueryNames : \E r \in Model_getNodeShape(Self, name) :
    Do([op |-> "getNodeShape", name |-> name], r)

GetNodeType ==
  \E name \in QueryNames : \E r \in Model_getNodeType(Self, name) :
    Do([op |-> "getNodeType", name |-> name], r)

GetInputShape == \E r \in Model_getInputShape(Self) : Do([op |-> "getInputShape"], r)
GetOutputShape == \E r \in Model_getOutputShape(Self) : Do([op |-> "getOutputShape"], r)
GetInputShapes == \E r \in Model_getInputShapes(Self) : Do([op |-> "getInputShapes"], r)
GetOutputShapes == \E r \in Model_getOutputShapes(Self) : Do([op |-> "getOutputShapes"], r)
GetInputType == \E r \in Model_getInputType(Self) : Do([op |-> "getInputType"], r)
GetOutputType == \E r \in Model_getOutputType(Self) : Do([op |-> "getOutputType"], r)
GetInputTypes == \E r \in Model_getInputTypes(Self) : Do([op |-> "getInputTypes"], r)
GetOutputTypes == \E r \in Model_getOutputTypes(Self) : Do([op |-> "getOutputTypes"], r)

GetInfoString == \E r \in Model_getInfoString(Self) : Do([op |-> "getInfoString"], r)

CallInputs == {<<<<name, "t1">>>> : name \in QueryNames}
CallOutputNames == {<<name>> : name \in QueryNames}

Call ==
  \E inputs \in CallInputs, output_names \in CallOutputNames, run_ok \in BOOLEAN :
    Do([op |-> "operator()(inputs, output_names)", inputs |-> inputs,
        output_names |-> output_names],
       Model_call(Self, inputs, output_names, run_ok))

CallTensor ==
  \E run_ok \in BOOLEAN :
    Do([op |-> "operator()(input_tensor)", input_tensor |-> "t1"],
       Model_call_tensor(Self, "t1", run_ok))

CallTensors ==
  \E input_tensors \in {<<>>, <<"t1">>, <<"t1", "t2">>},
     run_ok \in BOOLEAN :
    Do([op |-> "operator()(input_tensors)", input_tensors |-> input_tensors],
       Model_call_tensors(Self, input_tensors, run_ok))

Next ==
  \/ LoadModel(ModelPaths, DiskGraphs, DiskSavedModels, MaxLoads)
  \/ IsLoaded
  \/ GetNodeShape \/ GetNodeType
  \/ GetInputShape \/ GetOutputShape \/ GetInputShapes \/ GetOutputShapes
  \/ GetInputType \/ GetOutputType \/ GetInputTypes \/ GetOutputTypes
  \/ GetInfoString
  \/ Call \/ CallTensor \/ CallTensors

Spec == Init /\ [][Next]_vars

(***************************************************************************)
(* SpecLoad: loadModel alone, on any SavedModel over two layer names and   *)
(* two node names, a second load on the same object included.              *)
(***************************************************************************)
LoadLayers == {"a", "b"}
LoadNodes == {"x", "xa"}

LoadSavedModels ==
  {NoSignature}
  \cup {SavedModelOf(inputs, outputs) :
          inputs \in EntryMaps(LoadLayers, LoadNodes, MaxEntries),
          outputs \in EntryMaps(LoadLayers, LoadNodes, MaxEntries)}

NextLoad == LoadModel(ModelPaths, DiskGraphs, LoadSavedModels, MaxLoads)

SpecLoad == Init /\ [][NextLoad]_vars

(***************************************************************************)
(* SpecDispatch: the first loadModel of an object, on every path of up to  *)
(* MaxPathLen characters                                                   *)
(***************************************************************************)
MaxPathLen == 4
MaxDispatchLoads == 1
PathChars == {".", "p", "b", "m"}

RECURSIVE PathsUpTo(_)
PathsUpTo(n) ==
  IF n = 0 THEN {""}
  ELSE LET shorter == PathsUpTo(n - 1)
       IN  shorter \cup {path \o c : path \in shorter, c \in PathChars}

DispatchGraphs == {<<NodeDef("a", PlaceholderFloat), NodeDef("b", IdentityOfA)>>}
DispatchSavedModels ==
  {SavedModelOf("a" :> TensorInfoOf("x"), "b" :> TensorInfoOf("xa"))}

NextDispatch ==
  LoadModel(PathsUpTo(MaxPathLen), DispatchGraphs, DispatchSavedModels, MaxDispatchLoads)

SpecDispatch == Init /\ [][NextDispatch]_vars

(***************************************************************************)
(* Claims on the name maps written by loadModel (checked under SpecLoad)   *)
(***************************************************************************)
\* the latest call was a loadModel that ran the two loops over the names
LoadLoopsRan == last.op = "loadModel" /\ last.wrote

ServingDefault(saved_model) == saved_model.signatures["serving_default"]

DeclaredPairs(saved_model) ==
  {<<l, ServingDefault(saved_model).inputs[l].name>> :
     l \in DOMAIN ServingDefault(saved_model).inputs}
  \cup {<<l, ServingDefault(saved_model).outputs[l].name>> :
          l \in DOMAIN ServingDefault(saved_model).outputs}

\* unique layer names and unique node names across inputs and outputs combined
UniqueSignature(saved_model) ==
  /\ ~SignatureMissing(saved_model, "serving_default")
  /\ DOMAIN ServingDefault(saved_model).inputs
       \cap DOMAIN ServingDefault(saved_model).outputs = {}
  /\ \A p \in DeclaredPairs(saved_model), q \in DeclaredPairs(saved_model) :
       p[2] = q[2] => p = q

MapPairs(map) == {<<k, map[k]>> : k \in DOMAIN map}

InversePairOver(pairs) ==
  \A p \in pairs :
    /\ p[1] \in DOMAIN saved_model_layer2node_
    /\ saved_model_layer2node_[p[1]] = p[2]
    /\ p[2] \in DOMAIN saved_model_node2layer_
    /\ saved_model_node2layer_[p[2]] = p[1]

\* C4 (as stated): after loadModel on a SavedModel with any signature, every
\* (layer, node) pair written by the load loops satisfies
\* saved_model_layer2node_[layer] = node and saved_model_node2layer_[node] = layer.
C4_AsStated == LoadLoopsRan => InversePairOver(written)

\* C4 (amended): after loadModel on a SavedModel whose serving_default
\* signature has unique layer names and unique node names across inputs and
\* outputs combined, every (layer, node) pair written by the load loops
\* satisfies saved_model_layer2node_[layer] = node and
\* saved_model_node2layer_[node] = layer.
C4_WrittenPairsAreInverseWhenUnique ==
  (LoadLoopsRan /\ UniqueSignature(saved_model_)) => InversePairOver(written)

\* a second loadModel on the same object has written two pairs from a
\* signature with unique names, over maps that already held other entries
C4_Witness ==
  /\ LoadLoopsRan
  /\ UniqueSignature(saved_model_)
  /\ n_loads = 2
  /\ Cardinality(written) = 2
  /\ MapPairs(saved_model_layer2node_) # written

\* C5 (as stated): after loadModel on a SavedModel whose serving_default
\* signature has unique layer names and unique node names across inputs and
\* outputs combined, saved_model_layer2node_ holds exactly the declared
\* (layer, node) pairs and saved_model_node2layer_ exactly the inverse pairs.
C5_MapsHoldExactlyDeclaredEntries ==
  (LoadLoopsRan /\ UniqueSignature(saved_model_)) =>
    /\ MapPairs(saved_model_layer2node_) = DeclaredPairs(saved_model_)
    /\ MapPairs(saved_model_node2layer_)
         = {<<p[2], p[1]>> : p \in DeclaredPairs(saved_model_)}

(***************************************************************************)
(* Claims on the queries of a Model (checked under Spec)                   *)
(***************************************************************************)
IsQuery(op) ==
  op \in {"getNodeShape", "getNodeType", "getInputShape", "getOutputShape",
          "getInputShapes", "getOutputShapes", "getInputType", "getOutputType",
          "getInputTypes", "getOutputTypes", "operator()(inputs, output_names)",
          "operator()(input_tensor)", "operator()(input_tensors)"}

\* C6 (as stated, for the first operation after loadModel has returned): a
\* query or run operation called on the Model right after loadModel returned
\* leaves saved_model_layer2node_ and saved_model_node2layer_ as they were.
C6_QueriesLeaveNameMapsUnchanged ==
  [][(last.op = "loadModel" /\ last.status = "ok" /\ IsQuery(last'.op)) =>
       /\ saved_model_layer2node_' = saved_model_layer2node_
       /\ saved_model_node2layer_' = saved_model_node2layer_]_vars

\* the int64 dimension is -1 or a positive size
IsDeclaredDim(dim) == (dim.hi = 0 /\ (dim.lo = -1 \/ dim.lo > 0)) \/ dim.hi > 0

\* ret is the declared shape: the same length, the same int64 in every place
IsDeclaredShape(ret, tensor_shape) ==
  /\ Len(ret) = Len(tensor_shape)
  /\ \A d \in 1..Len(ret) : tensor_shape[d] = Dim64(0, ret[d])

\* the shapes declared under the name by the model held by the object: the
\* entries of the signature with that layer name, the nodes of the graph
\* with that name and a shape attribute
DeclaredShapes(name) ==
  LET all ==
        IF is_saved_model_
        THEN IF SignatureMissing(saved_model_, "serving_default") THEN {}
             ELSE {ServingDefault(saved_model_).inputs[l].tensor_shape :
                     l \in DOMAIN ServingDefault(saved_model_).inputs \cap {name}}
                  \cup {ServingDefault(saved_model_).outputs[l].tensor_shape :
                          l \in DOMAIN ServingDefault(saved_model_).outputs \cap {name}}
        ELSE {graph_def_[i].attr["shape"] :
                i \in {j \in 1..Len(graph_def_) :
                         graph_def_[j].name = name /\ "shape" \in DOMAIN graph_def_[j].attr}}
  IN  {shape \in all : \A d \in 1..Len(shape) : IsDeclaredDim(shape[d])}

\* the name the latest shape query was about
QueriedName ==
  CASE last.op = "getNodeShape" -> {last.name}
    [] last.op = "getInputShape" /\ Len(input_names_) = 1 -> {input_names_[1]}
    [] last.op = "getOutputShape" /\ Len(output_names_) = 1 -> {output_names_[1]}
    [] OTHER -> {}

\* the single declared output entry of the SavedModel held by the object
SingleOutputEntry ==
  IF is_saved_model_ /\ ~SignatureMissing(saved_model_, "serving_default")
     /\ Cardinality(DOMAIN ServingDefault(saved_model_).outputs) = 1
  THEN {ServingDefault(saved_model_).outputs[l] :
          l \in DOMAIN ServingDefault(saved_model_).outputs}
  ELSE {}

\* C7 (as stated): getNodeShape(name), and getInputShape() / getOutputShape()
\* for the single input / output, return the shape declared for it with
\* every dimension as declared (-1 or a positive size); getOutputShape() of a
\* SavedModel with one declared output entry returns that entry's shape.
C7_ShapeQueryReturnsDeclaredShape ==
  (session_ # nullptr /\ last.op \in {"getNodeShape", "getInputShape", "getOutputShape"}
     /\ last.status = "ok") =>
    /\ \A name \in QueriedName :
         Cardinality(DeclaredShapes(name)) = 1 =>
           \A shape \in DeclaredShapes(name) : IsDeclaredShape(last.val, shape)
    /\ last.op = "getOutputShape" =>
         \A entry \in SingleOutputEntry :
           (\A d \in 1..Len(entry.tensor_shape) : IsDeclaredDim(entry.tensor_shape[d]))
             => IsDeclaredShape(last.val, entry.tensor_shape)

\* C10: on a loaded model getInputShape() and getInputType() throw the
\* "only available for single-input models" error whenever the number of
\* inputs is not 1, getOutputShape() and getOutputType() the single-output
\* error whenever the number of outputs is not 1.
C10_SingleNodeAccessorsThrow ==
  session_ # nullptr =>
    /\ (last.op \in {"getInputShape", "getInputType"} /\ n_inputs_ # 1) =>
         /\ last.status = "throw"
         /\ last.type = "std::runtime_error"
         /\ last.what[2] = "only available for single-input models"
    /\ (last.op \in {"getOutputShape", "getOutputType"} /\ n_outputs_ # 1) =>
         /\ last.status = "throw"
         /\ last.type = "std::runtime_error"
         /\ last.what[2] = "only available for single-output models"

\* getInputShape() has thrown on a loaded SavedModel with two declared inputs
C10_Witness ==
  /\ session_ # nullptr
  /\ is_saved_model_
  /\ last.op = "getInputShape"
  /\ n_inputs_ = 2
  /\ Len(input_names_) = 2
  /\ last.status = "throw"

(***************************************************************************)
(* Claim on the format dispatch (checked under SpecDispatch)               *)
(***************************************************************************)
EndsWith(str, suffix) ==
  /\ Len(str) >= Len(suffix)
  /\ SubSeq(str, Len(str) - Len(suffix) + 1, Len(str)) = suffix

\* C8 (as stated): for every path, loadModel attempts loadFrozenGraph and
\* isFrozenGraph() is true afterwards when the path ends in ".pb", and
\* attempts loadSavedModel and isSavedModel() is true afterwards otherwise.
C8_DispatchIsTotal ==
  last.op = "loadModel" =>
    IF EndsWith(last.model_path, ".pb")
    THEN last.loader = "loadFrozenGraph" /\ is_frozen_graph_ /\ ~is_saved_model_
    ELSE last.loader = "loadSavedModel" /\ is_saved_model_ /\ ~is_frozen_graph_

(***************************************************************************)
(* Claims on the three operator() overloads (checked under Spec)           *)
(***************************************************************************)
\* C11: operator()(input_tensors) called with k tensors on a loaded model of
\* n inputs, k # n, throws an error that reports n and k, and has not called
\* session_->Run.
C11_PositionalCountMismatchThrows ==
  (session_ # nullptr /\ last.op = "operator()(input_tensors)"
     /\ Len(last.input_tensors) # n_inputs_) =>
    /\ last.status = "throw"
    /\ last.runs = <<>>
    /\ last.type = "std::runtime_error"
    /\ last.what[2] = n_inputs_
    /\ last.what[3] = Len(last.input_tensors)

\* two tensors were given to a loaded model of one input, and the call threw
C11_Witness ==
  /\ session_ # nullptr
  /\ last.op = "operator()(input_tensors)"
  /\ Len(last.input_tensors) = 2
  /\ n_inputs_ = 1
  /\ Len(input_names_) = 1
  /\ last.status = "throw"

\* C12: operator()(input_tensor) on a loaded model whose number of inputs is
\* not 1 or whose number of outputs is not 1 throws an error that states both
\* numbers, and has not called session_->Run.
C12_SingleTensorCountMismatchThrows ==
  (session_ # nullptr /\ last.op = "operator()(input_tensor)"
     /\ (n_inputs_ # 1 \/ n_outputs_ # 1)) =>
    /\ last.status = "throw"
    /\ last.runs = <<>>
    /\ last.type = "std::runtime_error"
    /\ last.what[2] = n_inputs_
    /\ last.what[3] = n_outputs_

\* the call threw on a loaded model of one input and two outputs
C12_Witness ==
  /\ session_ # nullptr
  /\ last.op = "operator()(input_tensor)"
  /\ n_inputs_ = 1
  /\ n_outputs_ = 2
  /\ Len(output_names_) = 2
  /\ last.status = "throw"

RunOperators ==
  {"operator()(inputs, output_names)", "operator()(input_tensor)",
   "operator()(input_tensors)"}

\* C13: on a loaded model a call of the name-based operator() calls
\* session_->Run exactly once; when that call gives a non-success status the
\* operator throws an error carrying the status message and returns nothing,
\* and so do the single-tensor and the positional operator once they have
\* delegated to it.
C13_OneRunAndFailureThrows ==
  (session_ # nullptr /\ last.op \in RunOperators) =>
    /\ last.op = "operator()(inputs, output_names)" => Len(last.runs) = 1
    /\ Len(last.runs) <= 1
    /\ \A k \in 1..Len(last.runs) :
         IF last.runs[k].status = StatusOK
         THEN last.status = "ok"
         ELSE /\ last.status = "throw"
              /\ "val" \notin DOMAIN last
              /\ last.type = "std::runtime_error"
              /\ last.what[2] = last.runs[k].status

\* the positional operator has delegated on a loaded model, session_->Run
\* gave a non-success status and the operator threw
C13_Witness ==
  /\ session_ # nullptr
  /\ last.op = "operator()(input_tensors)"
  /\ Len(last.runs) = 1
  /\ last.runs[1].status = StatusError
  /\ last.status = "throw"

C15_IsLoadedIffALoadSucceeded ==
  [][(n_loads <= 1 /\ last.op \in {"none", "loadModel"} /\ last'.op = "isLoaded") =>
       last'.val = (last.op = "loadModel" /\ last.status = "ok")]_vars

\* C16 (as stated): in the name-based operator() on a SavedModel each input
\* pair whose name is a declared input layer is passed to session_->Run as
\* (node name of that entry, same tensor) at the same position, and each
\* requested name that is a declared output layer as the node name of that
\* entry; on a FrozenGraph the names are passed unchanged; the map returned
\* holds under the k-th requested name the k-th tensor given by the runtime.
C16_NamesAreTranslatedForTheRuntime ==
  (session_ # nullptr /\ last.op = "operator()(inputs, output_names)"
     /\ Len(last.runs) = 1) =>
    /\ Len(last.runs[1].inputs) = Len(last.inputs)
    /\ Len(last.runs[1].outputs) = Len(last.output_names)
    /\ (is_saved_model_ /\ ~SignatureMissing(saved_model_, "serving_default")) =>
         /\ \A k \in 1..Len(last.inputs) :
              last.inputs[k][1] \in DOMAIN ServingDefault(saved_model_).inputs =>
                last.runs[1].inputs[k]
                  = <<ServingDefault(saved_model_).inputs[last.inputs[k][1]].name,
                      last.inputs[k][2]>>
         /\ \A k \in 1..Len(last.output_names) :
              last.output_names[k] \in DOMAIN ServingDefault(saved_model_).outputs =>
                last.runs[1].outputs[k]
                  = ServingDefault(saved_model_).outputs[last.output_names[k]].name
    /\ is_frozen_graph_ =>
         /\ last.runs[1].inputs = last.inputs
         /\ last.runs[1].outputs = last.output_names
    /\ last.status = "ok" =>
         \A k \in 1..Len(last.output_names) :
           /\ last.output_names[k] \in DOMAIN last.val
           /\ last.val[last.output_names[k]] = RunOutput(last.runs[1].outputs, k)

\* the entries (of the SavedModel held by the object) declared under the
\* layer name, resp. the nodes (of the graph held by it) with that name
EntriesNamed(name) ==
  IF is_saved_model_
  THEN IF SignatureMissing(saved_model_, "serving_default") THEN {}
       ELSE {ServingDefault(saved_model_).inputs[l] :
               l \in DOMAIN ServingDefault(saved_model_).inputs \cap {name}}
            \cup {ServingDefault(saved_model_).outputs[l] :
                    l \in DOMAIN ServingDefault(saved_model_).outputs \cap {name}}
  ELSE {graph_def_[i] : i \in {j \in 1..Len(graph_def_) : graph_def_[j].name = name}}

EntryHasShape(entry) ==
  IF is_saved_model_ THEN entry.tensor_shape # <<>> ELSE "shape" \in DOMAIN entry.attr

\* C17 (as stated): Model::getNodeShape(name) returns the empty sequence when
\* the model has no node/entry of that name and when every node/entry of
\* that name has no shape attribute.
C17_AbsentOrShapelessGivesEmpty ==
  (session_ # nullptr /\ last.op = "getNodeShape" /\ last.status = "ok"
     /\ \A entry \in EntriesNamed(last.name) : ~EntryHasShape(entry)) =>
    last.val = <<>>

(***************************************************************************)
(* SpecQuery: the shape and datatype queries of graph_utils.h and          *)
(* saved_model_utils.h applied to a graph or a SavedModel, with any node   *)
(* name and any signature name.                                            *)
(***************************************************************************)
\* getSavedModelNodeShape / getSavedModelNodeType as called: the signature
\* is looked up with GetSignatures().at(signature) first
SavedModelNodeShapeResult(saved_model, node_name, signature) ==
  IF SignatureMissing(saved_model, signature)
  THEN {[status |-> "throw", type |-> "std::out_of_range", what |-> <<"at">>]}
  ELSE {[status |-> "ok", val |-> shape] :
          shape \in getSavedModelNodeShape(saved_model, node_name, signature)}

SavedModelNodeTypeResult(saved_model, node_name, signature) ==
  IF SignatureMissing(saved_model, signature)
  THEN {[status |-> "throw", type |-> "std::out_of_range", what |-> <<"at">>]}
  ELSE {[status |-> "ok", val |-> type] :
          type \in getSavedModelNodeType(saved_model, node_name, signature)}

QueryNodes == {"x", "xa", "n"}

QuerySavedModels ==
  {NoSignature}
  \cup {SavedModelOf(inputs, outputs) :
          inputs \in EntryMaps(LoadLayers, QueryNodes, MaxEntries),
          outputs \in EntryMaps(LoadLayers, QueryNodes, MaxEntries)}

QueryNodeNames == {"a", "b", "x", "xa", "n", "q"}
QuerySignatures == {"serving_default", "other"}

InitQuery ==
  /\ ModelConstructed
  /\ n_inputs_ = 0
  /\ n_outputs_ = 0
  /\ last = NoCall
  /\ written = {}
  /\ n_loads = 0
  /\ \/ \E graph_def \in DiskGraphs : given = [graph_def |-> graph_def]
     \/ \E saved_model \in QuerySavedModels : given = [saved_model |-> saved_model]

CallGetGraphNodeShape ==
  /\ "graph_def" \in DOMAIN given
  /\ \E node_name \in QueryNodeNames :
       last' = [op |-> "getGraphNodeShape", node_name |-> node_name, status |-> "ok",
                val |-> getGraphNodeShape(given.graph_def, node_name)]
  /\ UNCHANGED <<model_fields, written, n_loads, given>>

CallGetGraphNodeType ==
  /\ "graph_def" \in DOMAIN given
  /\ \E node_name \in QueryNodeNames :
       last' = [op |-> "getGraphNodeType", node_name |-> node_name, status |-> "ok",
                val |-> getGraphNodeType(given.graph_def, node_name)]
  /\ UNCHANGED <<model_fields, written, n_loads, given>>

CallGetSavedModelNodeShape ==
  /\ "saved_model" \in DOMAIN given
  /\ \E node_name \in QueryNodeNames, signature \in QuerySignatures :
       \E r \in SavedModelNodeShapeResult(given.saved_model, node_name, signature) :
         last' = [op |-> "getSavedModelNodeShape", node_name |-> node_name,
                  signature |-> signature] @@ r
  /\ UNCHANGED <<model_fields, written, n_loads, given>>

CallGetSavedModelNodeType ==
  /\ "saved_model" \in DOMAIN given
  /\ \E node_name \in QueryNodeNames, signature \in QuerySignatures :
       \E r \in SavedModelNodeTypeResult(given.saved_model, node_name, signature) :
         last' = [op |-> "getSavedModelNodeType", node_name |-> node_name,
                  signature |-> signature] @@ r
  /\ UNCHANGED <<model_fields, written, n_loads, given>>

NextQuery ==
  \/ CallGetGraphNodeShape \/ CallGetGraphNodeType
  \/ CallGetSavedModelNodeShape \/ CallGetSavedModelNodeType

SpecQuery == InitQuery /\ [][NextQuery]_vars

(***************************************************************************)
(* Claims on the free shape and datatype queries (checked under SpecQuery) *)
(***************************************************************************)
\* the datatypes declared for the name: the dtype attribute of the graph's
\* nodes of that name, the dtype of the signature's entries on that node
DeclaredTypes ==
  IF last.op = "getGraphNodeType"
  THEN {given.graph_def[i].attr["dtype"] :
          i \in {j \in 1..Len(given.graph_def) :
                   /\ given.graph_def[j].name = last.node_name
                   /\ "dtype" \in DOMAIN given.graph_def[j].attr}}
  ELSE {pair[2] : pair \in
          {p \in {<<e.name, e.dtype>> :
                    e \in Range(given.saved_model.signatures[last.signature].inputs)
                          \cup Range(given.saved_model.signatures[last.signature].outputs)} :
             p[1] = last.node_name /\ p[2] # "DT_INVALID"}}

\* C18 (as stated): getGraphNodeType and getSavedModelNodeType return the
\* dtype declared for the named node/entry when it has one, and DT_INVALID
\* when no node/entry has the name or it has no dtype.
C18_TypeQueryReturnsDeclaredType ==
  (last.op \in {"getGraphNodeType", "getSavedModelNodeType"} /\ last.status = "ok") =>
    IF DeclaredTypes = {}
    THEN last.val = "DT_INVALID"
    ELSE last.val \in DeclaredTypes

\* C19 (as stated): getGraphNodeShape, getGraphNodeType,
\* getSavedModelNodeShape and getSavedModelNodeType return normally for every
\* graph or SavedModel, every node name and every signature name.
C19_QueriesNeverFail ==
  last.op \in {"getGraphNodeShape", "getGraphNodeType",
               "getSavedModelNodeShape", "getSavedModelNodeType"} =>
    last.status = "ok"

\* C20 (as stated): loadModel of a SavedModel whose signature is read and
\* whose runtime calls all succeed completes without error, also when two
\* declared entries share a layer name or a node name, and every declared
\* (layer, node) entry is among the pairs it has written to the maps.
C20_EveryDeclaredEntryIsWritten ==
  (/\ last.op = "loadModel"
   /\ last.loader = "loadSavedModel"
   /\ \A k \in 1..Len(last.statuses) : last.statuses[k].status = StatusOK
   /\ \A k \in 1..Len(last.runs) : last.runs[k].status = StatusOK
   /\ ~SignatureMissing(saved_model_, "serving_default")) =>
    /\ last.status = "ok"
    /\ last.wrote
    /\ DeclaredPairs(saved_model_) \subseteq written

(***************************************************************************)
(* Claims on the default name order of the convenience runs (under Spec)   *)
(***************************************************************************)
\* the name session_->Run is given for a name of the model held by the object
RuntimeName(name) ==
  IF is_saved_model_ THEN MapGet(saved_model_layer2node_, name) ELSE name

\* the model held by the object has the names its counts stand for
CountsMatchNames ==
  /\ session_ # nullptr
  /\ n_inputs_ = Len(input_names_)
  /\ n_outputs_ = Len(output_names_)

MaxWarmupLoads == 1

WarmupTypes == {SwitchCases[i][1] : i \in 1..Len(SwitchCases)}
WarmupShapes == {<<Dim(-1), Dim(28)>>, <<Dim(2)>>, <<Dim(-1), Dim64(1, 28)>>}

TensorInfo(name, tensor_shape, dtype) ==
  [name |-> name, tensor_shape |-> tensor_shape, dtype |-> dtype]

WarmupInputs ==
  {"a" :> TensorInfo("x", shape, type) : shape \in WarmupShapes, type \in WarmupTypes}
  \cup {("a" :> TensorInfo("x", <<Dim(-1), Dim(28)>>, type1))
          @@ ("b" :> TensorInfo("xa", <<Dim(2)>>, type2)) :
        type1 \in {"DT_FLOAT", "DT_DOUBLE"}, type2 \in WarmupTypes}

WarmupSavedModels ==
  {SavedModelOf(inputs, "c" :> TensorInfoOf("y")) : inputs \in WarmupInputs}

WarmupGraphs ==
  {<<NodeDef("a", [op |-> "Placeholder", input |-> <<>>,
                   attr |-> ("shape" :> shape) @@ ("dtype" :> type)]),
     NodeDef("b", IdentityOfA)>> :
   shape \in WarmupShapes, type \in WarmupTypes}

WarmupPaths == {"saved_model", "graph.pb"}

\* the process has ended in the latest call
ProcessEnded == "status" \in DOMAIN last /\ last.status = "abort"

NextWarmup ==
  /\ ~ProcessEnded
  /\ \/ LoadModel(WarmupPaths, WarmupGraphs, WarmupSavedModels, MaxWarmupLoads)
     \/ GetInputShapes
     \/ GetNodeShape

SpecWarmup == Init /\ [][NextWarmup]_vars

(***************************************************************************)
(* Claims on the warm-up run (checked under SpecWarmup)                    *)
(***************************************************************************)
\* the latest call was a loadModel whose load and discovery steps succeeded
DiscoveryDone ==
  /\ last.op = "loadModel"
  /\ last.loader # "none"
  /\ \A k \in 1..Len(last.statuses) : last.statuses[k].status = StatusOK
  /\ is_saved_model_ => ~SignatureMissing(saved_model_, "serving_default")

\* the shape, as int64 dimensions, and the datatype declared for the input
\* of the model held by the object
DeclaredInput(name) ==
  IF is_saved_model_
  THEN [shape |-> ServingDefault(saved_model_).inputs[name].tensor_shape,
        dtype |-> ServingDefault(saved_model_).inputs[name].dtype]
  ELSE LET node == graph_def_[CHOOSE i \in 1..Len(graph_def_) : graph_def_[i].name = name]
       IN  [shape |-> node.attr["shape"], dtype |-> node.attr["dtype"]]

\* the declared shape with every -1 replaced by 1
Substituted(tensor_shape) ==
  [d \in 1..Len(tensor_shape) |->
     IF tensor_shape[d] = Dim(-1) THEN Dim(1) ELSE tensor_shape[d]]

AsInt64(shape) == [d \in 1..Len(shape) |-> Dim64(0, shape[d])]

\* the dummy tensors of the one run are built from the declared inputs
OneRunOnDeclaredDummies ==
  /\ Len(last.runs) = 1
  /\ Len(last.runs[1].inputs) = Len(input_names_)
  /\ \A k \in 1..Len(input_names_) :
       /\ last.runs[1].inputs[k][2].dtype = DeclaredInput(input_names_[k]).dtype
       /\ AsInt64(last.runs[1].inputs[k][2].shape)
            = Substituted(DeclaredInput(input_names_[k]).shape)

\* C22 (as stated): loadModel with warmup=true performs exactly one model
\* run after discovery, in which the dummy tensor for input k has the
\* declared dtype of input k and the declared shape of input k with every -1
\* replaced by 1 and every other dimension unchanged; loadModel with
\* warmup=false performs no run; and the shape queries made right after a
\* warm-up return the declared shapes, -1 included.
C22_WarmupRunsOnceOnSubstitutedShapes ==
  /\ [](DiscoveryDone => IF last.warmup THEN OneRunOnDeclaredDummies
                                      ELSE last.runs = <<>>)
  /\ [][(DiscoveryDone /\ last.warmup /\ last.status = "ok"
           /\ last'.op = "getInputShapes") =>
          /\ last'.status = "ok"
          /\ Len(last'.val) = Len(input_names_)
          /\ \A k \in 1..Len(input_names_) :
               AsInt64(last'.val[k]) = DeclaredInput(input_names_[k]).shape]_vars

\* the element type of the tensors of a datatype handled by the switch
ElementType(dtype) ==
  SwitchCases[CHOOSE i \in 1..Len(SwitchCases) : SwitchCases[i][1] = dtype][2]

\* C23 (as stated): in Model::dummyCall, for every input whose dtype is one
\* of the types handled by the switch, exactly one zero-fill is executed on
\* that input's dummy tensor, and it is the zero-fill whose element type
\* matches the dtype; no zero-fill for another element type is executed.
C23_OneZeroFillOfTheInputsType ==
  last.op = "loadModel" =>
    \A k \in 1..Len(last.dummies) :
      last.dummies[k].dtype \in WarmupTypes =>
        last.dummies[k].zero_fills = <<ElementType(last.dummies[k].dtype)>>

(***************************************************************************)
(* SpecTranslate: getSavedModelNodeByLayerName and                         *)
(* getSavedModelLayerByNodeName applied one after the other to a name, on  *)
(* any SavedModel.                                                         *)
(***************************************************************************)
TranslatedNames == LayerPool \cup NodePool \cup {"q"}

\* getSavedModelLayerByNodeName(sm, getSavedModelNodeByLayerName(sm, name))
CallLayerByNodeOfLayer ==
  /\ \E name \in TranslatedNames :
       \E node \in getSavedModelNodeByLayerName(given, name, "serving_default") :
         \E layer \in getSavedModelLayerByNodeName(given, node, "serving_default") :
           last' = [op |-> "getSavedModelLayerByNodeName(getSavedModelNodeByLayerName)",
                    name |-> name, inner |-> node, ret |-> layer]
  /\ UNCHANGED <<model_fields, written, n_loads, given>>

\* getSavedModelNodeByLayerName(sm, getSavedModelLayerByNodeName(sm, name))
CallNodeByLayerOfNode ==
  /\ \E name \in TranslatedNames :
       \E layer \in getSavedModelLayerByNodeName(given, name, "serving_default") :
         \E node \in getSavedModelNodeByLayerName(given, layer, "serving_default") :
           last' = [op |-> "getSavedModelNodeByLayerName(getSavedModelLayerByNodeName)",
                    name |-> name, inner |-> layer, ret |-> node]
  /\ UNCHANGED <<model_fields, written, n_loads, given>>

NextTranslate == CallLayerByNodeOfLayer \/ CallNodeByLayerOfNode

SpecTranslate == InitSavedModel /\ [][NextTranslate]_vars

(***************************************************************************)
(* Claim on the translation of names (checked under SpecTranslate)         *)
(***************************************************************************)
DeclaredLayers(saved_model) == {p[1] : p \in DeclaredPairs(saved_model)}
DeclaredNodes(saved_model) == {p[2] : p \in DeclaredPairs(saved_model)}

\* C24: on a signature with unique layer names and unique node names across
\* inputs and outputs, for every declared layer L
\* getSavedModelLayerByNodeName(getSavedModelNodeByLayerName(L)) = L, for
\* every declared node N
\* getSavedModelNodeByLayerName(getSavedModelLayerByNodeName(N)) = N, and for
\* a name declared nowhere each function returns the empty string.
C24_TranslationIsARoundTrip ==
  UniqueSignature(given) =>
    /\ last.op = "getSavedModelLayerByNodeName(getSavedModelNodeByLayerName)" =>
         IF last.name \in DeclaredLayers(given)
         THEN last.inner \in DeclaredNodes(given) /\ last.ret = last.name
         ELSE last.inner = ""
    /\ last.op = "getSavedModelNodeByLayerName(getSavedModelLayerByNodeName)" =>
         IF last.name \in DeclaredNodes(given)
         THEN last.inner \in DeclaredLayers(given) /\ last.ret = last.name
         ELSE last.inner = ""

\* a declared output layer of a signature with two inputs and unique names
\* has been translated to its node and back
C24_Witness ==
  /\ UniqueSignature(given)
  /\ Cardinality(DOMAIN ServingDefault(given).inputs) = 2
  /\ last.op = "getSavedModelLayerByNodeName(getSavedModelNodeByLayerName)"
  /\ last.name \in DOMAIN ServingDefault(given).outputs
  /\ last.ret = last.name

(***************************************************************************)
(* Claims on the state of the object across loads (checked under Spec)     *)
(***************************************************************************)
\* what isLoaded(), isSavedModel(), isFrozenGraph(), session(), inputNames(),
\* outputNames(), nInputs(), nOutputs() return, and the two name maps
Observed ==
  <<session_ # nullptr, is_saved_model_, is_frozen_graph_, session_,
    input_names_, output_names_, n_inputs_, n_outputs_,
    saved_model_node2layer_, saved_model_layer2node_>>

\* C25 (as stated): when a loadModel call throws, isLoaded(), isSavedModel(),
\* isFrozenGraph(), session(), inputNames(), outputNames(), nInputs(),
\* nOutputs() and both name maps have the same values after the call as
\* before it.
C25_FailedLoadLeavesModelUnchanged ==
  [][(n_loads' = n_loads + 1 /\ last'.status = "throw") => Observed' = Observed]_vars

\* C26 (as stated): after a successful loadModel, whatever loads came before
\* it on the same object, saved_model_layer2node_ and saved_model_node2layer_
\* hold only entries of the model just loaded, the pairs declared by its
\* signature or written by this load, and are empty when it is a FrozenGraph.
C26_ReloadReplacesNameMaps ==
  (last.op = "loadModel" /\ last.status = "ok") =>
    IF is_frozen_graph_
    THEN saved_model_layer2node_ = EmptyMap /\ saved_model_node2layer_ = EmptyMap
    ELSE /\ MapPairs(saved_model_layer2node_) \subseteq DeclaredPairs(saved_model_) \cup written
         /\ MapPairs(saved_model_node2layer_)
              \subseteq {<<p[2], p[1]>> : p \in DeclaredPairs(saved_model_) \cup written}

\* C27 (as stated): after loading a SavedModel with any signature, every
\* element of inputNames() is a layer name declared among the signature's
\* inputs and every element of outputNames() a layer name declared among its
\* outputs, also when an input entry and an output entry share a node name
\* or a layer name.
C27_NamesAreDeclaredOnTheirSide ==
  LoadLoopsRan =>
    /\ Range(input_names_) \subseteq DOMAIN ServingDefault(saved_model_).inputs
    /\ Range(output_names_) \subseteq DOMAIN ServingDefault(saved_model_).outputs

(***************************************************************************)
(* SpecGraphRefs: getGraphInputNames and getGraphOutputNames on graphs     *)
(* whose nodes refer to their inputs in every form a NodeDef allows: the   *)
(* node name, "name:k" for the k-th output of the node, "^name" for a      *)
(* control dependency.                                                     *)
(***************************************************************************)
MaxPort == 1

RefsTo(name) ==
  {name, "^" \o name} \cup {name \o ":" \o ToString(k) : k \in 0..MaxPort}

RefOps == {"Placeholder", "Identity", "Const"}

RefBodies ==
  {[op |-> op, input |-> input, attr |-> NoAttr] :
     op \in RefOps,
     input \in {<<>>} \cup {<<r>> : r \in UNION {RefsTo(name) : name \in GraphNames}}}

InitGraphRefs ==
  /\ ModelConstructed
  /\ n_inputs_ = 0
  /\ n_outputs_ = 0
  /\ last = NoCall
  /\ written = {}
  /\ n_loads = 0
  /\ \E n \in 1..MaxNodes :
       \E names \in [1..n -> GraphNames], bodies \in [1..n -> RefBodies] :
         /\ \A i, j \in 1..n : names[i] = names[j] => i = j
         /\ given = [i \in 1..n |-> NodeDef(names[i], bodies[i])]

SpecGraphRefs == InitGraphRefs /\ [][NextGraph]_vars

(***************************************************************************)
(* Claim on the forms of an input reference (checked under SpecGraphRefs)  *)
(***************************************************************************)
\* some other node of the graph has the i-th node among its inputs
ConsumedByOther(graph_def, i) ==
  \E j \in 1..Len(graph_def) :
    /\ j # i
    /\ Range(graph_def[j].input) \cap RefsTo(graph_def[i].name) # {}

\* C28 (as stated): getGraphOutputNames never reports a node that is consumed
\* by some other node, whether the consumer refers to it by its plain name,
\* by a port-qualified reference "name:k" or by a control dependency "^name".
C28_ConsumedNodesAreNotOutputs ==
  last.op = "getGraphOutputNames" =>
    \A i \in 1..Len(given) :
      ConsumedByOther(given, i) => given[i].name \notin Range(last.ret)

\* C29 (as stated): in every reachable state of a Model object nInputs()
\* equals inputNames().size() and nOutputs() equals outputNames().size().
C29_CountsEqualNameListLengths ==
  /\ n_inputs_ = Len(input_names_)
  /\ n_outputs_ = Len(output_names_)

\* C30: on a Model on which loadModel has never been called isLoaded(),
\* isSavedModel() and isFrozenGraph() are false, the name-based operator()
\* returns an empty map without calling session_->Run, getNodeShape returns
\* the empty shape, getNodeType the invalid type and getInfoString the empty
\* string; after any loadModel call at most one of isSavedModel() and
\* isFrozenGraph() is true.
C30_UnloadedModelIsInert ==
  /\ n_loads = 0 =>
       /\ session_ = nullptr /\ ~is_saved_model_ /\ ~is_frozen_graph_
       /\ last.op = "isLoaded" => last.val = FALSE
       /\ last.op = "operator()(inputs, output_names)" =>
            last.status = "ok" /\ last.runs = <<>> /\ last.val = EmptyMap
       /\ last.op = "getNodeShape" => last.status = "ok" /\ last.val = <<>>
       /\ last.op = "getNodeType" => last.status = "ok" /\ last.val = "DT_INVALID"
       /\ last.op = "getInfoString" => last.status = "ok" /\ last.val = EmptyString
  /\ n_loads > 0 => ~(is_saved_model_ /\ is_frozen_graph_)

\* the name-based operator() has returned on an object never loaded
C30_Witness ==
  /\ n_loads = 0
  /\ last.op = "operator()(inputs, output_names)"
  /\ last.status = "ok"
  /\ last.val = EmptyMap

====
